---- MODULE Spec2Model ----
(***************************************************************************)
(* JesnZIP tray agent: the clipboard polling loop (monitor_clipboard_loop), *)
(* its dedup state (last_id), the upload threads it spawns                  *)
(* (handle_new_file / upload_path) and the menu handlers that mutate the    *)
(* shared settings dictionary.                                              *)
(***************************************************************************)
EXTENDS Integers, Sequences, FiniteSets, TLC

VARIABLES
    clipboard,   \* the system clipboard: [kind, img, paths, text]
    disk,        \* the file system: path -> [exists, size, mtime]
    settings,    \* the module-level settings dict: [auto_upload, session_key,
                 \* poll_interval]
    last_id,     \* local of monitor_clipboard_loop: last dispatched identity
    pc,          \* position of the polling thread: "sample" or "sleep"
    jobs,        \* the upload threads that are running, in dispatch order
    finished,    \* history: the upload thread that ended most recently
    obs,         \* history: what the most recent loop iteration observed and did
    run,         \* history: the current run of consecutive ticks with one identity
    unsampled,   \* history: the images copied since the last sample (the last two)
    poll,        \* local of monitor_clipboard_loop: the sleep between iterations
    hash_call,   \* one call of image_bytes_hash taken step by step (SpecHash)
    temp_dir     \* the temp PNGs of image dispatches that are on disk

vars == <<clipboard, disk, settings, last_id, pc, jobs, finished, obs, run, unsampled,
          poll, hash_call, temp_dir>>

-----------------------------------------------------------------------------
(* Bounds of the model *)

MaxInFlight == 2  \* upload threads running at the same time
MaxMtime == 2     \* the clock of file modification times
MaxTemps == 3     \* names that NamedTemporaryFile has to give

-----------------------------------------------------------------------------
(* Values *)

None == "None"                       \* Python's None
Absent == "<absent>"                 \* a key a JSON object does not hold

\* Python truthiness of an optional string: None and "" are falsy.
Truthy(v) == v # None /\ v # ""

\* x or y
PyOr(x, y) == IF Truthy(x) THEN x ELSE y

Images == {"A", "B"}                 \* pixel contents of clipboard images

notes_txt == [stem |-> "notes", ext |-> ".txt"]
photo_png == [stem |-> "photo", ext |-> ".png"]
clip_MP4  == [stem |-> "clip",  ext |-> ".MP4"]
old_jpg   == [stem |-> "old",   ext |-> ".jpg"]

Paths == {notes_txt, photo_png, clip_MP4, old_jpg}

\* The file lists a user may copy.
FileLists ==
    { <<notes_txt, photo_png>>, <<old_jpg, clip_MP4, photo_png>>, <<notes_txt, old_jpg>> }

\* the one copied next to images
LoopFileLists == { <<notes_txt, photo_png>> }

Sizes == {10, 20}

Keys == {"k1"}                       \* session keys a user may enter

EmptyClipboard == [kind |-> "empty", img |-> None, paths |-> <<>>, text |-> None]
ImageClip(i)   == [kind |-> "image", img |-> i,    paths |-> <<>>, text |-> None]
FilesClip(l)   == [kind |-> "files", img |-> None, paths |-> l,    text |-> None]
TextClip(t)    == [kind |-> "text",  img |-> None, paths |-> <<>>, text |-> t]

\* content that grabclipboard() returns as a value that is neither None, nor
\* a list, nor an image (it has no save attribute)
OtherClip      == [kind |-> "other", img |-> None, paths |-> <<>>, text |-> None]

-----------------------------------------------------------------------------
(* os.path helpers *)

abspath(p) == "/tmp/" \o p.stem \o p.ext

\* str.lower() on the extensions of Paths
lower(ext) ==
    CASE ext = ".MP4" -> ".mp4"
      [] ext = ".PNG" -> ".png"
      [] OTHER -> ext

ImageExts == {".png", ".jpg", ".jpeg", ".bmp", ".gif"}
VideoExts == {".mp4", ".mov", ".mkv", ".avi"}

\* the n-th name of NamedTemporaryFile(suffix=".png")
TempPath(n) == "/tmp/tmp" \o ToString(n) \o ".png"

TempNumbers == 1..MaxTemps

IsTemp(path) == \E n \in TempNumbers : path = TempPath(n)

\* a temp name that is not on disk (0: the model has run out of names)
FreshTemp(files) ==
    IF TempNumbers \subseteq files THEN 0
    ELSE CHOOSE n \in TempNumbers \ files : \A m \in TempNumbers \ files : n <= m

\* open(path, "rb") succeeds
Readable(path, dsk) ==
    \/ IsTemp(path)
    \/ \E p \in Paths : abspath(p) = path /\ dsk[p].exists

-----------------------------------------------------------------------------
(* Content identity *)

\* hashlib.sha256 over the bytes of a file, as hex digest
file_hash(bytes) == "sha256(" \o bytes \o ")"

\* img.save(tf, format="PNG")
PngBytes(img) == "PNG:" \o img

\* image_bytes_hash: the hash, or None when the temp file I/O raises
image_bytes_hash(img, io) ==
    IF io = "hash_error" THEN None ELSE file_hash(PngBytes(img))

\* the identifier without the modification time
FileIdentifier_NoMtime(p, dsk) ==
    "file::" \o abspath(p) \o "::" \o ToString(dsk[p].size)

\* f"file::{abspath}::{getsize}::{getmtime}"
FileIdentifier(p, dsk) ==
    "file::" \o abspath(p) \o "::" \o ToString(dsk[p].size)
             \o "::" \o ToString(dsk[p].mtime)

\* os.path.exists(p) and the extension allow-list
Qualifies(p, dsk) ==
    /\ dsk[p].exists
    /\ (lower(p.ext) \in ImageExts \/ lower(p.ext) \in VideoExts)

\* the loop without its os.path.exists test
RECURSIVE FirstQualifying_NoExists(_, _)
FirstQualifying_NoExists(paths, dsk) ==
    IF paths = <<>> THEN <<>>
    ELSE IF lower(Head(paths).ext) \in ImageExts \cup VideoExts THEN <<Head(paths)>>
    ELSE FirstQualifying_NoExists(Tail(paths), dsk)

\* the for loop over the grabbed list: the path at which it breaks, as a
\* sequence of length 0 or 1
RECURSIVE FirstQualifying(_, _)
FirstQualifying(paths, dsk) ==
    IF paths = <<>> THEN <<>>
    ELSE IF Qualifies(Head(paths), dsk) THEN <<Head(paths)>>
    ELSE FirstQualifying(Tail(paths), dsk)

\* the gate without its auto_upload test
ShouldDispatchImage_NoAuto(img_h, last, st) == Truthy(img_h) /\ img_h # last

\* the gate without its comparison with last_id
ShouldDispatchImage_NoDedup(img_h, last, st) == Truthy(img_h) /\ st.auto_upload

\* a gate that rejects whatever follows an earlier dispatch
ShouldDispatchImage_AnyRecent(img_h, last, st) ==
    Truthy(img_h) /\ last = None /\ st.auto_upload

\* the gate without its test that a hash came back
ShouldDispatchImage_NoTruthy(img_h, last, st) == img_h # last /\ st.auto_upload

\* the dedup gate of the file branch
ShouldDispatchFile(identifier, last, st) ==
    identifier # last /\ st.auto_upload

\* the dedup gate of the image branch
ShouldDispatchImage(img_h, last, st) ==
    Truthy(img_h) /\ img_h # last /\ st.auto_upload

-----------------------------------------------------------------------------
(* One iteration of the while loop of monitor_clipboard_loop.              *)
(* io names the I/O fault of this iteration, if any:                       *)
(*   "grab_error"  ImageGrab.grabclipboard() raises                        *)
(*   "stat_error"  os.path.getsize/getmtime raises (file vanished)         *)
(*   "hash_error"  image_bytes_hash fails and returns None                 *)
(*   "save_error"  writing the temp PNG of an accepted image raises        *)
(* The result: the new last_id, the paths handed to new threads (0 or 1),  *)
(* the identity computed, whether an exception was caught.                 *)

IoFaults == {"ok", "grab_error", "stat_error", "hash_error", "save_error"}

Outcome(last, spawn, ident, caught) ==
    [last |-> last, spawn |-> spawn, ident |-> ident, caught |-> caught]

ListBranch(paths, dsk, st, last, io) ==
    LET q == FirstQualifying(paths, dsk) IN
    IF q = <<>> THEN Outcome(last, <<>>, None, FALSE)
    ELSE IF io = "stat_error"
         THEN Outcome(last, <<>>, None, TRUE)
    ELSE LET identifier == FileIdentifier(q[1], dsk) IN
         IF ShouldDispatchFile(identifier, last, st)
         THEN Outcome(identifier, <<abspath(q[1])>>, identifier, FALSE)
         ELSE Outcome(last, <<>>, identifier, FALSE)

ImageBranch(img, st, last, io, n) ==
    LET img_h == image_bytes_hash(img, io) IN
    IF ShouldDispatchImage(img_h, last, st)
    THEN IF io = "save_error"
         THEN Outcome(img_h, <<>>, img_h, TRUE)
         ELSE Outcome(img_h, <<TempPath(n)>>, img_h, FALSE)
    ELSE Outcome(last, <<>>, img_h, FALSE)

LoopBody(cb, dsk, st, last, io, n) ==
    IF io = "grab_error" THEN Outcome(last, <<>>, None, TRUE)
    ELSE CASE cb.kind = "files" -> ListBranch(cb.paths, dsk, st, last, io)
           [] cb.kind = "image" -> ImageBranch(cb.img, st, last, io, n)
           [] OTHER -> Outcome(last, <<>>, None, FALSE)

\* whether the iteration reaches tempfile.NamedTemporaryFile(suffix=".png",
\* delete=False), which creates the file; it stays when img.save raises
CreatesTemp(cb, st, last, io) ==
    /\ io # "grab_error"
    /\ cb.kind = "image"
    /\ ShouldDispatchImage(image_bytes_hash(cb.img, io), last, st)

-----------------------------------------------------------------------------
(* The upload: upload_path and handle_new_file *)

T_url   == "{\"url\": \"https://s.jesn.zip/x\"}"
T_share == "{\"share_url\": \"https://s.jesn.zip/s\"}"
T_null  == "{\"url\": null, \"file_url\": \"https://s.jesn.zip/f\"}"
T_both  == "{\"url\": \"https://s.jesn.zip/x\", \"share_url\": \"https://s.jesn.zip/s\"}"
T_empty == "{}"
T_list  == "[]"
T_text  == "server error"

Object(u, s, f) == [kind |-> "object", url |-> u, share_url |-> s, file_url |-> f]

\* resp.json(): the parsed body, or kind "invalid" when json raises
Json(text) ==
    CASE text = T_url   -> Object("https://s.jesn.zip/x", Absent, Absent)
      [] text = T_share -> Object(Absent, "https://s.jesn.zip/s", Absent)
      [] text = T_null  -> Object(None, Absent, "https://s.jesn.zip/f")
      [] text = T_both  -> Object("https://s.jesn.zip/x", "https://s.jesn.zip/s", Absent)
      [] text = T_empty -> Object(Absent, Absent, Absent)
      [] text = T_list  -> [kind |-> "list"]
      [] OTHER          -> [kind |-> "invalid"]

\* dict.get(key)
Get(data, key) == IF data[key] = Absent THEN None ELSE data[key]

\* only the key url is read
ExtractUrl_UrlOnly(data) == Get(data, "url")

\* the keys are tried from the last to the first
ExtractUrl_Reversed(data) ==
    PyOr(Get(data, "file_url"), PyOr(Get(data, "share_url"), Get(data, "url")))

\* data.get("url") or data.get("share_url") or data.get("file_url")
ExtractUrl(data) ==
    PyOr(Get(data, "url"), PyOr(Get(data, "share_url"), Get(data, "file_url")))

\* every status from 200 on counts as success
IsSuccessCode_From200(status) == status >= 200

\* 201 is forgotten
IsSuccessCode_Only200(status) == status = 200

\* resp.status_code in (200, 201)
IsSuccessCode(status) == status \in {200, 201}

HttpResponse(status, text) == [kind |-> "http", status |-> status, text |-> text]
NetError(text) == [kind |-> "error", status |-> 0, text |-> text]
NoNet == [kind |-> "none", status |-> 0, text |-> None]

E_timeout == "HTTPSConnectionPool: Read timed out."
E_open    == "[Errno 2] No such file or directory"
E_json    == "Expecting value: line 1 column 1 (char 0)"
E_attr    == "'list' object has no attribute 'get'"

\* every behaviour of the network and the server
AllNet ==
    { HttpResponse(s, t) : s \in {200, 201, 500},
                           t \in {T_url, T_share, T_null, T_both, T_empty, T_list, T_text} }
    \cup { NetError(E_timeout) }

\* the ones the polling specification draws from
LoopNet == { HttpResponse(201, T_url), HttpResponse(500, T_text) }

Returned(ok, url, data, auth, sent) ==
    [ok |-> ok, url |-> url, data |-> data, auth |-> auth, sent |-> sent]

\* the key is sent as a bearer token
AuthHeader_Bearer(st) ==
    IF Truthy(st.session_key) THEN "Bearer " \o st.session_key ELSE None

\* the Authorization header of the request: the session key, None when unset
AuthHeader(st) == IF Truthy(st.session_key) THEN st.session_key ELSE None

\* upload_path(path): (ok, url, data), with the Authorization header it sent
upload_path(path, st, dsk, net) ==
    IF ~Readable(path, dsk) THEN Returned(FALSE, None, E_open, None, FALSE)
    ELSE IF net.kind = "error"
         THEN Returned(FALSE, None, net.text, AuthHeader(st), TRUE)
    ELSE IF IsSuccessCode(net.status)
         THEN LET data == Json(net.text) IN
              CASE data.kind = "invalid" ->
                       Returned(FALSE, None, E_json, AuthHeader(st), TRUE)
                [] data.kind = "list" ->
                       Returned(FALSE, None, E_attr, AuthHeader(st), TRUE)
                [] OTHER ->
                       Returned(TRUE, ExtractUrl(data), data, AuthHeader(st), TRUE)
    ELSE Returned(FALSE, None, net.text, AuthHeader(st), TRUE)

N_copied == [title |-> "JesnZIP", message |-> "Upload completed - link copied to clipboard"]
N_nolink == [title |-> "JesnZIP", message |-> "Upload completed (no link returned)"]
N_failed(msg) == [title |-> "JesnZIP: Upload failed", message |-> msg]

\* the test "ok and url" written as "ok"
Branch_AnyOk(ok, url) == IF ok THEN "link" ELSE "failed"

\* the branch handle_new_file takes on upload_path's result
Branch(ok, url) ==
    IF ok /\ Truthy(url) THEN "link"
    ELSE IF ok /\ ~Truthy(url) THEN "nolink"
    ELSE "failed"

\* a thread started on handle_new_file(path); accepted_sk is the session key
\* set at that moment
NewJob(path, ident, st) ==
    [path |-> path, ident |-> ident, pc |-> "spawned", accepted_sk |-> st.session_key,
     net |-> NoNet, sent |-> FALSE, ok |-> FALSE, url |-> None, data |-> None,
     auth |-> None, writes |-> <<>>, landed |-> FALSE, notes |-> <<>>]

\* no thread
NoJob == [NewJob(None, None, [session_key |-> None]) EXCEPT !.pc = "none"]

\* ok, url, data = upload_path(path)
AfterUpload(job, r, net) ==
    [job EXCEPT !.pc = "returned", !.net = IF r.sent THEN net ELSE NoNet,
                !.sent = r.sent, !.ok = r.ok, !.url = r.url, !.data = r.data,
                !.auth = r.auth]

\* set_clipboard_text(url) was called; landed: it did put url on the clipboard
\* (a local of the call, gone when the thread ends)
AfterWrite(job, opened) ==
    [job EXCEPT !.pc = "wrote", !.writes = Append(@, job.url), !.landed = opened]

\* the show_notification call of the branch taken; the thread ends
AfterNotify(job) ==
    LET b == Branch(job.ok, job.url)
        n == CASE b = "link" -> N_copied
               [] b = "nolink" -> N_nolink
               [] OTHER -> N_failed(job.data)
    IN [job EXCEPT !.pc = "done", !.notes = Append(@, n), !.landed = FALSE]

-----------------------------------------------------------------------------
(* History of the polling loop *)

NoObs == [valid |-> FALSE, ident |-> None, auto |-> TRUE, spawned |-> FALSE,
          caught |-> FALSE, missed |-> None, slept |-> 0, failed |-> FALSE]

\* the identity of the upload that ended most recently, if it failed
FailedIdent(fin) == IF fin.pc = "done" /\ ~fin.ok THEN fin.ident ELSE None

\* of two distinct images copied since the last sample, the first
Missed(un) == IF Len(un) = 2 /\ un[1] # un[2] THEN un[1] ELSE None

NoRun == [ident |-> None, spawned |-> 0, ok |-> FALSE, of |-> <<>>]

\* what an identity was computed from: the pixels of the image, or the path,
\* size and modification time of the selected file
Content(cb, dsk, ident) ==
    IF ident = None THEN <<>>
    ELSE IF cb.kind = "files"
         THEN LET q == FirstQualifying(cb.paths, dsk)[1] IN
              <<abspath(q), dsk[q].size, dsk[q].mtime>>
    ELSE <<cb.img>>

\* The run after a tick that computed identity ident: the uploads spawned
\* in the consecutive ticks that computed this identity. A run is ok while
\* auto-upload was on at each of its ticks and its identity was not the last
\* dispatched one when it began; only ok runs are counted.
NextRun(r, ident, auto, prev, nspawn, of) ==
    IF ident = None THEN NoRun
    ELSE IF ident = r.ident
         THEN IF r.ok /\ auto
              THEN [r EXCEPT !.spawned = @ + nspawn, !.of = of]
              ELSE [ident |-> ident, spawned |-> 0, ok |-> FALSE, of |-> of]
    ELSE IF auto /\ prev # ident
         THEN [ident |-> ident, spawned |-> nspawn, ok |-> TRUE, of |-> of]
         ELSE [ident |-> ident, spawned |-> 0, ok |-> FALSE, of |-> of]

-----------------------------------------------------------------------------
(* Initial state *)

\* image_bytes_hash is not being called; files: its temp files on disk
NoCall == [pc |-> "idle", img |-> None, tf |-> 0, h |-> None, ret |-> None,
           files |-> {}]

InitDisk ==
    [p \in Paths |->
        CASE p = old_jpg -> [exists |-> FALSE, size |-> 0, mtime |-> 0]
          [] OTHER       -> [exists |-> TRUE,  size |-> 10, mtime |-> 1]]

\* DEFAULT_SETTINGS, no session key
InitSettings == [auto_upload |-> TRUE, session_key |-> None, poll_interval |-> 1]

Init ==
    /\ clipboard = EmptyClipboard
    /\ disk = InitDisk
    /\ settings = InitSettings
    /\ last_id = None
    /\ pc = "sample"
    /\ jobs = <<>>
    /\ finished = NoJob
    /\ obs = NoObs
    /\ run = NoRun
    /\ unsampled = <<>>
    /\ poll = settings.poll_interval
    /\ hash_call = NoCall
    /\ temp_dir = {}

-----------------------------------------------------------------------------
(* The polling thread *)

\* an upload is started only while no other one runs
Start_Single(js, r, st) ==
    IF r.spawn = <<>> \/ js # <<>> THEN js
    ELSE Append(js, NewJob(r.spawn[1], r.ident, st))

\* threading.Thread(target=handle_new_file, args=(path,), daemon=True).start()
Start(js, r, st) ==
    IF r.spawn = <<>> THEN js
    ELSE Append(js, NewJob(r.spawn[1], r.ident, st))

\* whether the iteration reaches a time.sleep(poll): each of the three
\* branches and the except handler sleep; a grabbed value that enters no
\* branch falls out of the try and the while loop samples again at once
Sleeps(cb, io) == io = "grab_error" \/ cb.kind # "other"

\* the interval is looked up again at every sleep
SleepTime_Reread(local_poll, st) == st.poll_interval

\* time.sleep(poll): the local read once before the loop
SleepTime(local_poll, st) == local_poll

\* one iteration of the while loop, up to its time.sleep(poll)
Tick ==
    /\ pc = "sample"
    /\ \E io \in IoFaults :
        LET tf == FreshTemp(temp_dir)
            r == LoopBody(clipboard, disk, settings, last_id, io, tf)
            creates == CreatesTemp(clipboard, settings, last_id, io)
        IN
        /\ Len(jobs) + Len(r.spawn) <= MaxInFlight
        /\ creates => tf # 0
        /\ temp_dir' = IF creates THEN temp_dir \cup {tf} ELSE temp_dir
        /\ last_id' = r.last
        /\ jobs' = Start(jobs, r, settings)
        /\ obs' = [valid |-> TRUE, ident |-> r.ident, auto |-> settings.auto_upload,
                   spawned |-> (r.spawn # <<>>), caught |-> r.caught,
                   missed |-> Missed(unsampled), slept |-> SleepTime(poll, settings),
                   failed |-> (r.ident # None /\ FailedIdent(finished) = r.ident)]
        /\ run' = NextRun(run, r.ident, settings.auto_upload, last_id, Len(r.spawn),
                          Content(clipboard, disk, r.ident))
        /\ pc' = IF Sleeps(clipboard, io) THEN "sleep" ELSE "sample"
    /\ unsampled' = <<>>
    /\ UNCHANGED <<clipboard, disk, settings, finished, poll, hash_call>>

\* the loop joins its upload threads before it goes on
Sleep_Joins ==
    /\ pc = "sleep"
    /\ jobs = <<>>
    /\ pc' = "sample"
    /\ obs' = NoObs
    /\ UNCHANGED <<clipboard, disk, settings, last_id, jobs, finished, run, unsampled,
                   poll, hash_call, temp_dir>>

\* time.sleep(poll) returns
Sleep ==
    /\ pc = "sleep"
    /\ pc' = "sample"
    /\ obs' = NoObs
    /\ UNCHANGED <<clipboard, disk, settings, last_id, jobs, finished, run, unsampled,
                   poll, hash_call, temp_dir>>

-----------------------------------------------------------------------------
(* The upload threads *)

\* the thread that ended is queued again
Remove_Requeues(js, j) == js

\* js without its j-th thread
Remove(js, j) == SubSeq(js, 1, j - 1) \o SubSeq(js, j + 1, Len(js))

\* A whole run of handle_new_file, from the request to the notification.
\* opened is FALSE when OpenClipboard raises in set_clipboard_text.
handle_new_file ==
    \E j \in 1..Len(jobs) : \E net \in LoopNet : \E opened \in BOOLEAN :
        LET r == upload_path(jobs[j].path, settings, disk, net)
            j1 == AfterUpload(jobs[j], r, net)
            link == Branch(r.ok, r.url) = "link"
            j2 == IF link THEN AfterWrite(j1, opened) ELSE j1
        IN /\ jobs[j].pc = "spawned"
           /\ jobs' = Remove(jobs, j)
           /\ finished' = AfterNotify(j2)
           /\ clipboard' = IF link /\ opened THEN TextClip(r.url) ELSE clipboard
           /\ unsampled' = unsampled
           /\ UNCHANGED <<disk, settings, last_id, pc, obs, run, poll, hash_call, temp_dir>>

\* The same thread step by step: upload_path returns
RunUpload ==
    \E j \in 1..Len(jobs) : \E net \in AllNet :
        /\ jobs[j].pc = "spawned"
        /\ jobs' = [jobs EXCEPT ![j] =
               AfterUpload(@, upload_path(@.path, settings, disk, net), net)]
        /\ UNCHANGED <<clipboard, disk, settings, last_id, pc, finished, obs, run,
                       unsampled, poll, hash_call, temp_dir>>

\* the threads write their links in the order of dispatch
WriteBack_InOrder ==
    \E opened \in BOOLEAN :
        /\ jobs # <<>>
        /\ jobs[1].pc = "returned"
        /\ Branch(jobs[1].ok, jobs[1].url) = "link"
        /\ clipboard' = IF opened THEN TextClip(jobs[1].url) ELSE clipboard
        /\ unsampled' = unsampled
        /\ jobs' = [jobs EXCEPT ![1] = AfterWrite(@, opened)]
        /\ UNCHANGED <<disk, settings, last_id, pc, finished, obs, run, poll, hash_call, temp_dir>>

\* set_clipboard_text(url)
WriteBack ==
    \E j \in 1..Len(jobs) : \E opened \in BOOLEAN :
        /\ jobs[j].pc = "returned"
        /\ Branch(jobs[j].ok, jobs[j].url) = "link"
        /\ clipboard' = IF opened THEN TextClip(jobs[j].url) ELSE clipboard
        /\ unsampled' = unsampled
        /\ jobs' = [jobs EXCEPT ![j] = AfterWrite(@, opened)]
        /\ UNCHANGED <<disk, settings, last_id, pc, finished, obs, run, poll,
                       hash_call, temp_dir>>

\* the notification is shown as soon as upload_path has returned
Notify_BeforeWrite ==
    \E j \in 1..Len(jobs) :
        /\ jobs[j].pc \in {"wrote", "returned"}
        /\ jobs' = Remove(jobs, j)
        /\ finished' = AfterNotify(jobs[j])
        /\ UNCHANGED <<clipboard, disk, settings, last_id, pc, obs, run, unsampled,
                       poll, hash_call, temp_dir>>

\* show_notification(...), and the thread ends
Notify ==
    \E j \in 1..Len(jobs) :
        /\ \/ jobs[j].pc = "wrote"
           \/ jobs[j].pc = "returned" /\ Branch(jobs[j].ok, jobs[j].url) # "link"
        /\ jobs' = Remove(jobs, j)
        /\ finished' = AfterNotify(jobs[j])
        /\ UNCHANGED <<clipboard, disk, settings, last_id, pc, obs, run, unsampled,
                       poll, hash_call, temp_dir>>

-----------------------------------------------------------------------------
(* The user and the menu *)

SetClipboard(new) ==
    /\ new # clipboard
    /\ clipboard' = new
    /\ UNCHANGED <<disk, settings, last_id, pc, jobs, finished, obs, run, poll,
                   hash_call, temp_dir>>

CopyImage ==
    \E i \in Images :
        /\ SetClipboard(ImageClip(i))
        /\ unsampled' = IF unsampled = <<>> THEN <<i>>
                        ELSE <<unsampled[Len(unsampled)], i>>

CopyFiles == \E l \in LoopFileLists : SetClipboard(FilesClip(l)) /\ unsampled' = <<>>

CopyAnyFiles == \E l \in FileLists : SetClipboard(FilesClip(l)) /\ unsampled' = <<>>

\* the user copies content of a kind the loop has no branch for
CopyOther == SetClipboard(OtherClip) /\ unsampled' = <<>>

toggle_auto_upload ==
    /\ settings' = [settings EXCEPT !.auto_upload = ~@]
    /\ UNCHANGED <<clipboard, disk, last_id, pc, jobs, finished, obs, run, unsampled,
                   poll, hash_call, temp_dir>>

prompt_for_session_key ==
    \E key \in Keys :
        /\ settings.session_key # key
        /\ settings' = [settings EXCEPT !.session_key = key]
        /\ UNCHANGED <<clipboard, disk, last_id, pc, jobs, finished, obs, run,
                       unsampled, poll, hash_call, temp_dir>>

logout ==
    /\ settings.session_key # None
    /\ settings' = [settings EXCEPT !.session_key = None]
    /\ UNCHANGED <<clipboard, disk, last_id, pc, jobs, finished, obs, run, unsampled,
                   poll, hash_call, temp_dir>>

\* poll intervals, in seconds
Intervals == {1, 2}

\* settings["poll_interval"] is assigned while the loop runs: the dict is a
\* module global any thread of the process can write (no menu entry does)
set_poll_interval ==
    \E i \in Intervals :
        /\ settings.poll_interval # i
        /\ settings' = [settings EXCEPT !.poll_interval = i]
        /\ UNCHANGED <<clipboard, disk, last_id, pc, jobs, finished, obs, run, unsampled,
                       poll, hash_call, temp_dir>>

\* the user rewrites photo.png; a copy that keeps the time stamp changes the
\* size alone
WriteFile ==
    \E s \in Sizes : \E m \in {disk[photo_png].mtime, disk[photo_png].mtime + 1} :
        /\ m <= MaxMtime
        /\ <<s, m>> # <<disk[photo_png].size, disk[photo_png].mtime>>
        /\ disk' = [disk EXCEPT ![photo_png] =
                       [exists |-> TRUE, size |-> s, mtime |-> m]]
        /\ UNCHANGED <<clipboard, settings, last_id, pc, jobs, finished, obs, run,
                       unsampled, poll, hash_call, temp_dir>>

\* the user deletes photo.png
DeleteFile ==
    /\ disk[photo_png].exists
    /\ disk' = [disk EXCEPT ![photo_png].exists = FALSE]
    /\ UNCHANGED <<clipboard, settings, last_id, pc, jobs, finished, obs, run,
                   unsampled, poll, hash_call, temp_dir>>

-----------------------------------------------------------------------------
(* image_bytes_hash(img), statement by statement *)

\* the smallest temp name not on disk
FreshName(files) ==
    CHOOSE n \in 1..MaxTemps : n \notin files /\ \A m \in 1..MaxTemps : m \notin files => n <= m

\* with tempfile.NamedTemporaryFile(suffix=".png", delete=False) as tf:
\* the file is created, or the call raises and the except returns None
NamedTemporaryFile ==
    /\ hash_call.pc \in {"idle", "returned"}
    /\ clipboard.kind = "image"
    /\ \E img \in {clipboard.img} : \E raises \in BOOLEAN :
          /\ \E n \in 1..MaxTemps : n \notin hash_call.files
          /\ hash_call' =
                IF raises
                THEN [hash_call EXCEPT !.pc = "returned", !.img = img, !.tf = 0,
                                       !.h = None, !.ret = None]
                ELSE [hash_call EXCEPT !.pc = "opened", !.img = img,
                                       !.tf = FreshName(hash_call.files),
                                       !.h = None, !.ret = None,
                                       !.files = @ \cup {FreshName(hash_call.files)}]
    /\ UNCHANGED <<clipboard, disk, settings, last_id, pc, jobs, finished, obs, run,
                   unsampled, poll, temp_dir>>

\* img.save(tf, format="PNG"); tf.flush(): when one raises the with block
\* closes tf and the except returns None
img_save ==
    /\ hash_call.pc = "opened"
    /\ \E raises \in BOOLEAN :
          hash_call' = IF raises
                       THEN [hash_call EXCEPT !.pc = "returned", !.ret = None]
                       ELSE [hash_call EXCEPT !.pc = "saved"]
    /\ UNCHANGED <<clipboard, disk, settings, last_id, pc, jobs, finished, obs, run,
                   unsampled, poll, temp_dir>>

\* h = file_hash(tf.name): the digest, or None when reading fails
hash_temp ==
    /\ hash_call.pc = "saved"
    /\ \E fails \in BOOLEAN :
          hash_call' = [hash_call EXCEPT !.pc = "hashed",
                           !.h = IF fails THEN None
                                 ELSE file_hash(PngBytes(hash_call.img))]
    /\ UNCHANGED <<clipboard, disk, settings, last_id, pc, jobs, finished, obs, run,
                   unsampled, poll, temp_dir>>

\* os.unlink(tf.name); return h: when unlink raises the except returns None
unlink_temp ==
    /\ hash_call.pc = "hashed"
    /\ \E raises \in BOOLEAN :
          hash_call' = IF raises
                       THEN [hash_call EXCEPT !.pc = "returned", !.ret = None]
                       ELSE [hash_call EXCEPT !.pc = "returned", !.ret = hash_call.h,
                                              !.files = @ \ {hash_call.tf}]
    /\ UNCHANGED <<clipboard, disk, settings, last_id, pc, jobs, finished, obs, run,
                   unsampled, poll, temp_dir>>

-----------------------------------------------------------------------------
(* Spec: the polling loop, the user, and upload threads that run to         *)
(* completion in one step; a thread that ended leaves jobs.                 *)

Next ==
    \/ Tick
    \/ Sleep
    \/ handle_new_file
    \/ CopyImage
    \/ CopyFiles
    \/ toggle_auto_upload

Spec == Init /\ [][Next]_vars

(* SpecFiles: the polling loop over copied file lists, with a file system   *)
(* that changes under it.                                                   *)

NextFiles ==
    \/ Tick
    \/ Sleep
    \/ handle_new_file
    \/ CopyAnyFiles
    \/ WriteFile
    \/ DeleteFile
    \/ toggle_auto_upload

SpecFiles == Init /\ [][NextFiles]_vars

(* SpecPoll: the polling thread, copied images and their uploads. The      *)
(* polling thread is a thread of its own that the interpreter keeps         *)
(* scheduling and time.sleep returns, so its two steps are weakly fair; an   *)
(* upload thread may stay in its request for ever.                          *)

NextPoll ==
    \/ Tick
    \/ Sleep
    \/ handle_new_file
    \/ CopyImage

SpecPoll == Init /\ [][NextPoll]_vars /\ WF_vars(Tick) /\ WF_vars(Sleep)

(* SpecInterval: the polling loop while the poll interval held in the      *)
(* settings dict is changed under it.                                       *)

NextInterval ==
    \/ Tick
    \/ Sleep
    \/ handle_new_file
    \/ CopyImage
    \/ set_poll_interval

SpecInterval == Init /\ [][NextInterval]_vars

(* SpecUpload: one accepted item, just dispatched, and its upload thread    *)
(* taken step by step against every behaviour of the server.                *)

DispatchedImage == image_bytes_hash("A", "ok")
DispatchedFile == FileIdentifier(photo_png, InitDisk)

InitUpload ==
    /\ disk = InitDisk
    /\ settings \in [auto_upload : {TRUE}, session_key : {None} \cup Keys,
                     poll_interval : {1}]
    /\ \/ /\ clipboard = ImageClip("A")
          /\ last_id = DispatchedImage
          /\ jobs = <<NewJob(TempPath(1), DispatchedImage, settings)>>
       \/ /\ clipboard = FilesClip(<<notes_txt, photo_png>>)
          /\ last_id = DispatchedFile
          /\ jobs = <<NewJob(abspath(photo_png), DispatchedFile, settings)>>
    /\ pc = "sleep"
    /\ obs = [valid |-> TRUE, ident |-> last_id, auto |-> TRUE, spawned |-> TRUE,
              caught |-> FALSE, missed |-> None, slept |-> 1, failed |-> FALSE]
    /\ run = [ident |-> last_id, spawned |-> 1, ok |-> TRUE,
              of |-> Content(clipboard, disk, last_id)]
    /\ finished = NoJob
    /\ unsampled = <<>>
    /\ poll = settings.poll_interval
    /\ hash_call = NoCall
    /\ temp_dir = IF clipboard.kind = "image" THEN {1} ELSE {}

NextUpload ==
    \/ RunUpload
    \/ WriteBack
    \/ Notify
    \/ prompt_for_session_key
    \/ logout
    \/ DeleteFile

SpecUpload == InitUpload /\ [][NextUpload]_vars

(* SpecKinds: the polling loop over every kind of value grabclipboard()     *)
(* returns.                                                                 *)

NextKinds ==
    \/ Tick
    \/ Sleep
    \/ handle_new_file
    \/ CopyImage
    \/ CopyFiles
    \/ CopyOther

SpecKinds == Init /\ [][NextKinds]_vars

(* SpecHash: calls of image_bytes_hash on the image the clipboard holds,    *)
(* one after the other, with the temp files they leave on disk.             *)

NextHash ==
    \/ CopyImage
    \/ NamedTemporaryFile
    \/ img_save
    \/ hash_temp
    \/ unlink_temp

SpecHash == Init /\ [][NextHash]_vars

(* SpecRace: image A, then image B, were dispatched; their two upload       *)
(* threads run against every behaviour of the server, in any interleaving.  *)

InitRace ==
    /\ disk = InitDisk
    /\ settings = InitSettings
    /\ clipboard = ImageClip("B")
    /\ last_id = image_bytes_hash("B", "ok")
    /\ jobs = << NewJob(TempPath(1), image_bytes_hash("A", "ok"), settings),
                 NewJob(TempPath(2), image_bytes_hash("B", "ok"), settings) >>
    /\ pc = "sleep"
    /\ obs = [valid |-> TRUE, ident |-> last_id, auto |-> TRUE, spawned |-> TRUE,
              caught |-> FALSE, missed |-> None, slept |-> 1, failed |-> FALSE]
    /\ run = [ident |-> last_id, spawned |-> 1, ok |-> TRUE,
              of |-> Content(clipboard, disk, last_id)]
    /\ finished = NoJob
    /\ unsampled = <<>>
    /\ poll = settings.poll_interval
    /\ hash_call = NoCall
    /\ temp_dir = {1, 2}

NextRace ==
    \/ RunUpload
    \/ WriteBack
    \/ Notify

SpecRace == InitRace /\ [][NextRace]_vars

-----------------------------------------------------------------------------
(* Properties of the polling loop *)

\* a step of Tick
TickStep == pc = "sample" /\ pc' = "sleep"

\* the step spawned an upload thread
Spawns == Len(jobs') = Len(jobs) + 1

\* the thread a step spawned
Spawned == jobs'[Len(jobs')]

HashOf(img) == image_bytes_hash(img, "ok")

\* C1: with auto-upload on throughout, the consecutive ticks that compute one
\* identity (new when the first of them computes it) spawn exactly one
\* upload between them: the first tick dispatches, the later ones do not.
C1_OneUploadPerRun == run.ok => run.spawned = 1

\* C2: a tick that reads auto_upload = false spawns no upload and records
\* nothing, whatever the clipboard holds.
C2_NoDispatchWhenOff ==
    [][(TickStep /\ ~settings.auto_upload) => (jobs' = jobs /\ last_id' = last_id)]_vars

\* a tick read auto_upload = false while the clipboard held new content
C2_Witness ==
    /\ pc = "sleep" /\ obs.valid /\ ~obs.auto
    /\ obs.ident # None /\ obs.ident # last_id
    /\ ~obs.spawned

\* C3 as claimed: of two distinct images copied within one poll interval,
\* each has its own upload once the next tick has sampled (auto-upload on).
C3_BothDispatched ==
    [][(TickStep /\ settings.auto_upload /\ Missed(unsampled) # None
            /\ obs'.ident # None /\ ~obs'.caught)
        => \A k \in 1..2 : \E j \in 1..Len(jobs') : jobs'[j].ident = HashOf(unsampled[k])]_vars

\* C3 amended: of two distinct images copied within one poll interval only
\* the second can be dispatched: the next tick spawns at most one upload, and
\* only for the second image; the second is not suppressed by the first: it
\* becomes the last dispatched identity whenever it is hashed and differs
\* from the identity dispatched before.
C3_OnlySecondDispatched ==
    [][(TickStep /\ settings.auto_upload /\ Missed(unsampled) # None)
        => /\ jobs' = jobs \/ Spawns
           /\ Spawns => /\ Spawned.ident = HashOf(unsampled[2])
                        /\ Spawned.ident # HashOf(unsampled[1])
                        /\ SubSeq(jobs', 1, Len(jobs)) = jobs
           /\ (obs'.ident = HashOf(unsampled[2]) /\ last_id # HashOf(unsampled[2]))
                 => last_id' = HashOf(unsampled[2])]_vars

\* a tick sampled the second of two images, after a file was dispatched, and
\* spawned its upload; no upload of the first is running
C3_Witness ==
    /\ pc = "sleep" /\ obs.valid /\ obs.auto /\ obs.missed # None
    /\ obs.spawned /\ last_id = obs.ident /\ obs.ident # HashOf(obs.missed)
    /\ \E j \in 1..Len(jobs) : jobs[j].ident = obs.ident
    /\ \A j \in 1..Len(jobs) : jobs[j].ident # HashOf(obs.missed)

\* C4: a tick spawns an upload if and only if its identity is not None,
\* differs from last_id, and auto_upload is true at that tick.
C4_DispatchIff ==
    [][TickStep =>
        (Spawns <=> (obs'.ident # None /\ obs'.ident # last_id /\ settings.auto_upload))]_vars

\* X is the identity of an upload that is running
InFlight(x) == \E j \in 1..Len(jobs) : jobs[j].ident = x /\ jobs[j].pc = "spawned"

\* last_id is the identity of an upload that was started
LastWasStarted == InFlight(last_id) \/ finished.ident = last_id

\* C5 as claimed: a new thread finds last_id equal to its identity, and a
\* tick that computes the identity of a running upload spawns nothing
\* (taken in the states whose last_id belongs to an upload that was started).
C5_NoRespawnWhileInFlight ==
    [][TickStep =>
        /\ Spawns => last_id' = Spawned.ident
        /\ (obs'.ident # None /\ InFlight(obs'.ident) /\ LastWasStarted)
              => jobs' = jobs]_vars

\* C5 amended: a new thread finds last_id equal to its identity, and a tick
\* that computes the identity of a running upload while that identity is
\* still the last dispatched one spawns nothing and records nothing.
C5_NoRespawnWhileLast ==
    [][TickStep =>
        /\ Spawns => (last_id' = Spawned.ident /\ Spawned.pc = "spawned")
        /\ (obs'.ident # None /\ InFlight(obs'.ident) /\ last_id = obs'.ident)
              => (jobs' = jobs /\ last_id' = last_id)]_vars

\* a tick computed the identity of an upload still running and spawned nothing
C5_Witness ==
    /\ pc = "sleep" /\ obs.valid /\ obs.auto
    /\ obs.ident # None /\ obs.ident = last_id /\ ~obs.spawned
    /\ InFlight(obs.ident)

\* the positions of a list whose path exists and has an allowed extension
QualifyingAt(paths, dsk) ==
    { i \in 1..Len(paths) :
        /\ dsk[paths[i]].exists
        /\ lower(paths[i].ext) \in
              {".png", ".jpg", ".jpeg", ".bmp", ".gif", ".mp4", ".mov", ".mkv", ".avi"} }

\* C6: a tick over a file list spawns at most one upload, and only for the
\* first path of the list that exists and has an allowed extension; it
\* records no other identity than that path's; when no path qualifies it
\* spawns and records nothing.
C6_FirstQualifyingOnly ==
    [][(TickStep /\ clipboard.kind = "files") =>
        LET q == QualifyingAt(clipboard.paths, disk) IN
        /\ jobs' = jobs \/ Spawns
        /\ q = {} => (jobs' = jobs /\ last_id' = last_id)
        /\ Spawns => \E i \in q :
              /\ \A k \in q : i <= k
              /\ Spawned.path = abspath(clipboard.paths[i])
              /\ Spawned.ident = FileIdentifier(clipboard.paths[i], disk)
        /\ last_id' # last_id => \E i \in q :
              /\ \A k \in q : i <= k
              /\ last_id' = FileIdentifier(clipboard.paths[i], disk)]_vars

\* [notes.txt, photo.png] was sampled and one upload, of photo.png, spawned
C6_Witness ==
    /\ pc = "sleep" /\ obs.valid /\ obs.spawned
    /\ clipboard = FilesClip(<<notes_txt, photo_png>>)
    /\ Len(jobs) = 1 /\ jobs[1].path = "/tmp/photo.png"

-----------------------------------------------------------------------------
(* Properties of one upload, under SpecUpload *)

\* the one upload thread of SpecUpload, running or ended
Thread == IF jobs # <<>> THEN jobs[1] ELSE finished

\* upload_path has returned in the thread
HasReturned(t) == t.pc \in {"returned", "wrote", "done"}

\* the request was answered with HTTP 200 or 201
Answered2xx(t) == t.sent /\ t.net.kind = "http" /\ t.net.status \in {200, 201}

UrlKeys == {"url", "share_url", "file_url"}

\* the links a parsed body holds
LinksIn(data) ==
    IF data.kind = "object"
    THEN {data[k] : k \in UrlKeys} \ {Absent, None, ""}
    ELSE {}

\* C7: after HTTP 200/201 with a body that holds a link L, the outcome is a
\* success with exactly L and set_clipboard_text is called once, with L.
C7_LinkWrittenBack ==
    LET t == Thread IN
    \A L \in LinksIn(Json(t.net.text)) :
        (HasReturned(t) /\ Answered2xx(t) /\ LinksIn(Json(t.net.text)) = {L})
        => /\ t.ok /\ t.url = L
           /\ t.writes = IF t.pc = "returned" THEN <<>> ELSE <<L>>
           /\ t.pc = "done" => t.notes = <<N_copied>>

\* the upload answered 201 {"url": L} has ended: L was written once and is on
\* the clipboard
C7_Witness ==
    /\ finished.pc = "done"
    /\ finished.net = HttpResponse(201, T_url)
    /\ finished.writes = <<"https://s.jesn.zip/x">>
    /\ clipboard = TextClip("https://s.jesn.zip/x")

\* the upload failed: the source could not be read, the transport raised, or
\* the status is neither 200 nor 201
FailedBy(t) ==
    \/ ~t.sent
    \/ t.net.kind = "error"
    \/ t.net.kind = "http" /\ t.net.status \notin {200, 201}

\* the response body, or the text of the error
FailureText(t) == IF ~t.sent THEN E_open ELSE t.net.text

\* C8: a failed upload returns a failure that carries the response body or
\* the error text; one failure notification with that message is shown;
\* set_clipboard_text is never called and the clipboard keeps its content.
C8_FailureReported ==
    LET t == Thread IN
    (HasReturned(t) /\ FailedBy(t))
    => /\ ~t.ok /\ t.url = None /\ t.data = FailureText(t)
       /\ t.pc # "wrote" /\ t.writes = <<>>
       /\ t.notes = IF t.pc = "done" THEN <<N_failed(FailureText(t))>> ELSE <<>>
       /\ clipboard.kind # "text"

\* the upload answered 500 "server error" has ended
C8_Witness ==
    /\ finished.pc = "done"
    /\ finished.net = HttpResponse(500, "server error")
    /\ finished.notes = <<N_failed("server error")>>
    /\ finished.writes = <<>>

\* a parsed object that holds none of the three keys
NoUrlKey(data) == data.kind = "object" /\ \A k \in UrlKeys : data[k] = Absent

\* C9: after HTTP 200/201 with a parsed body that holds none of the keys url,
\* share_url, file_url the outcome is a success without a link: the
\* "no link returned" notification is shown, no failure notification, and the
\* clipboard is not written.
C9_SuccessWithoutLink ==
    LET t == Thread IN
    (HasReturned(t) /\ Answered2xx(t) /\ NoUrlKey(Json(t.net.text)))
    => /\ t.ok /\ ~Truthy(t.url)
       /\ t.pc # "wrote" /\ t.writes = <<>>
       /\ t.notes = IF t.pc = "done" THEN <<N_nolink>> ELSE <<>>
       /\ clipboard.kind # "text"

\* the upload answered 200 {} has ended
C9_Witness ==
    /\ finished.pc = "done"
    /\ finished.net = HttpResponse(200, T_empty)
    /\ finished.ok /\ finished.notes = <<N_nolink>>

\* C10: upload_path returns for every input, and returns a success if and
\* only if the request was answered 200 or 201 with a body that parses to an
\* object; in every other case it returns (False, None, message).
C10_SuccessIff ==
    /\ (\E j \in 1..Len(jobs) : jobs[j].pc = "spawned") => ENABLED RunUpload
    /\ LET t == Thread IN
       HasReturned(t) =>
          /\ t.ok <=> (Answered2xx(t) /\ Json(t.net.text).kind = "object")
          /\ ~t.ok => (t.url = None /\ t.data \in {E_open, E_timeout, E_json, E_attr,
                                                     t.net.text})

\* upload_path returned a failure for a 2xx answer whose body is not an object
C10_Witness ==
    /\ jobs # <<>> /\ jobs[1].pc = "returned"
    /\ jobs[1].net = HttpResponse(200, T_list)
    /\ ~jobs[1].ok /\ jobs[1].data = E_attr

-----------------------------------------------------------------------------
(* Errors in the polling loop *)

\* C11: the polling thread is always at its sample or at its sleep and can
\* always take its next step; a tick in which reading the clipboard or
\* identifying its content raises, or whose image hash comes back None, ends
\* with no identity and behaves like an empty tick: it spawns nothing, leaves
\* last_id unchanged and goes to its sleep.
C11_ErrorIsEmptyTick ==
    /\ [](/\ pc \in {"sample", "sleep"}
          /\ pc = "sample" => ENABLED Tick
          /\ pc = "sleep" => ENABLED Sleep)
    /\ [][(TickStep /\ obs'.ident = None)
            => (jobs' = jobs /\ last_id' = last_id /\ pc' = "sleep")]_vars

\* a tick over a new image, auto-upload on, ended in a caught exception before
\* the image was identified; nothing was recorded and the loop sleeps
C11_Witness ==
    /\ pc = "sleep" /\ obs.valid /\ obs.caught /\ obs.ident = None
    /\ clipboard.kind = "image" /\ obs.auto
    /\ last_id # HashOf(clipboard.img)
    /\ ~obs.spawned

\* C12: the tick that starts an upload thread goes to its sleep with the
\* thread just started and not run; the sleep returns whatever uploads are
\* running; and the polling thread keeps sampling and sleeping for ever, also
\* in the behaviours in which an upload never completes.
C12_LoopNeverWaits ==
    /\ [][(TickStep /\ Spawns) => (pc' = "sleep" /\ Spawned.pc = "spawned")]_vars
    /\ []((pc = "sleep" /\ jobs # <<>>) => ENABLED Sleep)
    /\ []<>(pc = "sample")
    /\ []<>(pc = "sleep")

\* a tick was taken, and spawned nothing, while an upload started by an
\* earlier tick is still running
C12_Witness ==
    /\ pc = "sleep" /\ obs.valid /\ ~obs.spawned
    /\ InFlight(last_id) /\ obs.ident = last_id

\* C13 as claimed: every tick sleeps for the poll interval the settings hold
\* at that tick.
C13_SleepsCurrentInterval ==
    [][TickStep => obs'.slept = settings.poll_interval]_vars

\* C13 amended: every tick sleeps for the poll interval the settings held when
\* the loop started, whatever they hold at that tick; the loop's local poll is
\* never assigned again.
C13_SleepsInitialInterval ==
    [][/\ poll' = poll
       /\ TickStep => obs'.slept = InitSettings.poll_interval]_vars

\* poll_interval was changed to 2 while the loop ran, and the tick after the
\* change slept 1
C13_Witness ==
    /\ pc = "sleep" /\ obs.valid
    /\ settings.poll_interval = 2 /\ obs.slept = 1

-----------------------------------------------------------------------------
(* Identity of content *)

\* C14: distinct images have distinct hashes; two consecutive ticks that both
\* identify the clipboard compute the same identity exactly when the content
\* is the same (for a file: its path, size and modification time). Once the
\* identity of a file was dispatched, the next tick over the unchanged file
\* spawns and records nothing, and over the file with another size or time
\* stamp it spawns (auto-upload on) an upload of that path.
C14_IdentityOfContent ==
    /\ [](\A i, j \in Images : (HashOf(i) = HashOf(j)) <=> (i = j))
    /\ [][(TickStep /\ run.ident # None /\ obs'.ident # None) =>
            /\ (obs'.ident = run.ident) <=> (run'.of = run.of)
            /\ (Len(run'.of) = 3 /\ last_id = run.ident) =>
                  /\ run'.of = run.of => (jobs' = jobs /\ last_id' = last_id)
                  /\ (run'.of # run.of /\ settings.auto_upload) =>
                        /\ Spawns
                        /\ Spawned.path = run'.of[1]
                        /\ Spawned.ident = obs'.ident]_vars

\* photo.png was dispatched, then rewritten, and the next tick dispatched the
\* same path again under another identity
C14_Witness ==
    /\ pc = "sleep" /\ obs.valid /\ obs.spawned
    /\ Len(jobs) = 2
    /\ jobs[1].path = "/tmp/photo.png" /\ jobs[2].path = "/tmp/photo.png"
    /\ jobs[1].ident # jobs[2].ident

-----------------------------------------------------------------------------
(* The dedup state and the uploads *)

\* C15: last_id changes only in a tick that spawns an upload for the new
\* value, in that same step; every other step leaves it unchanged.
C15_UpdateMatchedBySpawn ==
    [][last_id' # last_id =>
          (TickStep /\ Spawns /\ Spawned.ident = last_id')]_vars

\* C16: the end of an upload thread, failed or not, leaves last_id unchanged
\* and takes the thread away with no other put in its place; and a tick that
\* computes X after the upload of X has failed, X being the identity of the
\* tick before and the last dispatched one, spawns nothing.
C16_NoRetry ==
    [][/\ finished' # finished =>
            /\ last_id' = last_id
            /\ Len(jobs') = Len(jobs) - 1
            /\ \A j \in 1..Len(jobs') : \E k \in 1..Len(jobs) : jobs'[j] = jobs[k]
       /\ (TickStep /\ FailedIdent(finished) # None
              /\ obs'.ident = FailedIdent(finished)
              /\ run.ident = obs'.ident /\ last_id = obs'.ident)
            => (jobs' = jobs /\ last_id' = last_id)]_vars

\* the upload of the image on the clipboard has failed, and a tick taken after
\* the failure, auto-upload on, computed its identity and spawned nothing
C16_Witness ==
    /\ pc = "sleep" /\ obs.valid /\ obs.auto
    /\ obs.ident # None /\ obs.failed
    /\ finished.notes = <<N_failed("server error")>>
    /\ ~obs.spawned /\ ~InFlight(obs.ident)

\* C17: whatever uploads are running (up to the bounds of the model: threads
\* and temp file names), the tick over a new image, auto-upload on, can start
\* its upload; and the tick that starts an upload leaves the running ones as
\* they are.
C17_NoInFlightLimit ==
    /\ []((/\ pc = "sample" /\ settings.auto_upload
            /\ clipboard.kind = "image" /\ HashOf(clipboard.img) # last_id
            /\ Len(jobs) < MaxInFlight /\ FreshTemp(temp_dir) # 0)
          => ENABLED (Tick /\ Len(jobs') = Len(jobs) + 1
                           /\ jobs'[Len(jobs')].ident = HashOf(clipboard.img)))
    /\ [][(TickStep /\ Spawns) => SubSeq(jobs', 1, Len(jobs)) = jobs]_vars

\* two uploads of distinct identities are running, the second one started by
\* the latest tick while the first was running
C17_Witness ==
    /\ pc = "sleep" /\ obs.valid /\ obs.spawned
    /\ Len(jobs) = 2
    /\ jobs[1].ident # jobs[2].ident /\ jobs[2].ident = obs.ident
    /\ jobs[1].pc = "spawned" /\ jobs[2].pc = "spawned"

-----------------------------------------------------------------------------
(* Two uploads at once, under SpecRace *)

\* C18: the threads do not wait for each other: each can take its request,
\* its clipboard write and its notification whatever the position of the
\* other; a set_clipboard_text that succeeds puts the link of its own thread
\* on the clipboard whatever is there, and no other step of a thread touches
\* the clipboard. So when B is reported first and A writes last, the clipboard
\* holds A's link.
C18_LastWriteWins ==
    /\ [](\A j \in 1..Len(jobs) :
            /\ jobs[j].pc = "spawned" => ENABLED (RunUpload /\ jobs'[j].pc = "returned")
            /\ (jobs[j].pc = "returned" /\ Branch(jobs[j].ok, jobs[j].url) = "link")
                  => ENABLED (WriteBack /\ jobs'[j].pc = "wrote")
            /\ jobs[j].pc = "wrote"
                  => ENABLED (Notify /\ finished'.ident = jobs[j].ident))
    /\ [][\/ \E j \in 1..Len(jobs) :
                /\ Len(jobs') = Len(jobs)
                /\ jobs[j].pc = "returned" /\ jobs'[j].pc = "wrote"
                /\ clipboard' = IF jobs'[j].landed THEN TextClip(jobs[j].url)
                                 ELSE clipboard
           \/ clipboard' = clipboard]_vars

\* A was dispatched before B; B's outcome is reported, A's is not yet, and the
\* clipboard holds A's link, not B's
C18_Witness ==
    /\ finished.pc = "done" /\ finished.ident = HashOf("B")
    /\ finished.url = "https://s.jesn.zip/s"
    /\ finished.writes = <<"https://s.jesn.zip/s">>
    /\ Len(jobs) = 1 /\ jobs[1].ident = HashOf("A")
    /\ jobs[1].pc = "wrote" /\ jobs[1].landed
    /\ jobs[1].url = "https://s.jesn.zip/x"
    /\ last_id = HashOf("B")
    /\ clipboard = TextClip("https://s.jesn.zip/x")

-----------------------------------------------------------------------------
(* The temp file of image_bytes_hash, under SpecHash *)

\* C19: when image_bytes_hash has returned, with a hash or with None, the
\* temp file it created is no longer on disk.
C19_TempReleased ==
    hash_call.pc = "returned" => hash_call.tf \notin hash_call.files

-----------------------------------------------------------------------------
(* The Authorization header, under SpecUpload *)

\* the header a request carries for session key sk: sk itself, none when unset
HeaderFor(sk) == IF sk \in {None, ""} THEN None ELSE sk

\* C20 as claimed: the request a thread sent carries the session key that was
\* set when its item was accepted, whatever the menu did in between.
C20_SendsAcceptedKey ==
    LET t == Thread IN
    (HasReturned(t) /\ t.sent) => t.auth = HeaderFor(t.accepted_sk)

\* C20 amended: the request carries the session key the settings hold at the
\* moment upload_path builds it, none when no key is set then; what the thread
\* has sent is not changed by the menu afterwards.
C20_SendsCurrentKey ==
    [][\A j \in 1..Len(jobs) :
          /\ (Len(jobs') = Len(jobs) /\ jobs[j].pc = "spawned"
                 /\ jobs'[j].pc = "returned" /\ jobs'[j].sent)
                => jobs'[j].auth = HeaderFor(settings.session_key)
          /\ (Len(jobs') = Len(jobs) /\ jobs[j].pc # "spawned")
                => jobs'[j].auth = jobs[j].auth]_vars

\* an item accepted with no session key set was sent with the key entered
\* before its request was built
C20_Witness ==
    /\ jobs # <<>> /\ jobs[1].pc = "returned" /\ jobs[1].sent
    /\ jobs[1].accepted_sk = None
    /\ jobs[1].auth = "k1"

-----------------------------------------------------------------------------
(* The auto-upload flag *)

\* C21: a tick acts on the auto_upload flag the settings hold at that tick:
\* with the flag off it records and spawns nothing; and content that ticks
\* have seen with the flag off, still on the clipboard and not the last
\* dispatched identity, is dispatched by the next tick that finds the flag on.
C21_ToggleSeenByNextTick ==
    [][TickStep =>
        /\ ~settings.auto_upload => (last_id' = last_id /\ jobs' = jobs)
        /\ (/\ settings.auto_upload
            /\ run.ident # None /\ ~run.ok /\ run.ident # last_id
            /\ obs'.ident = run.ident)
           => (Spawns /\ Spawned.ident = run.ident /\ last_id' = run.ident)]_vars

-----------------------------------------------------------------------------
(* The link of a response, under SpecUpload *)

KeyOrder == <<"url", "share_url", "file_url">>

\* the positions of KeyOrder whose key the object holds
PresentAt(data) == { i \in 1..3 : data[KeyOrder[i]] # Absent }

\* the positions of KeyOrder whose key holds a value that is not null or empty
FilledAt(data) == { i \in 1..3 : data[KeyOrder[i]] \notin {Absent, None, ""} }

\* the value at the smallest position of a non-empty set of positions
FirstAt(data, at) == data[KeyOrder[CHOOSE i \in at : \A k \in at : i <= k]]

\* C22 as claimed: on a 200/201 object the link is the value of the first key
\* the object holds, in the order url, share_url, file_url.
C22_FirstPresentKey ==
    LET t == Thread
        data == Json(t.net.text)
    IN (HasReturned(t) /\ t.ok /\ PresentAt(data) # {})
       => t.url = FirstAt(data, PresentAt(data))

\* C22 amended: the link is the value of the first key, in that order, that
\* holds a value other than null or the empty string; a key that is present
\* with null is passed over like an absent one; when no key holds such a
\* value there is no link.
C22_FirstFilledKey ==
    LET t == Thread
        data == Json(t.net.text)
    IN (HasReturned(t) /\ t.ok)
       => IF FilledAt(data) # {} THEN t.url = FirstAt(data, FilledAt(data))
          ELSE ~Truthy(t.url)

\* the response {"url": null, "file_url": L} was answered 200 and the link
\* returned is L, the value of file_url
C22_Witness ==
    /\ jobs # <<>> /\ jobs[1].pc = "returned" /\ jobs[1].ok
    /\ jobs[1].net = HttpResponse(200, T_null)
    /\ jobs[1].url = "https://s.jesn.zip/f"

-----------------------------------------------------------------------------
(* The end of an upload thread, under SpecUpload *)

\* C23: a thread that has not ended can take its next step and has shown no
\* notification; a thread that has ended has shown exactly one; it calls
\* set_clipboard_text at most once, and when upload_path returned a link the
\* call, with that link, was made before the one notification (the success
\* one); without a link it made no call.
C23_OneNotification ==
    LET t == Thread IN
    /\ t.pc \in {"spawned", "returned", "wrote"}
          => (t.notes = <<>> /\ ENABLED (RunUpload \/ WriteBack \/ Notify))
    /\ t.pc = "done" => Len(t.notes) = 1
    /\ Len(t.writes) <= 1
    /\ (t.pc = "done" /\ t.ok /\ t.url \notin {None, ""})
          => (t.writes = <<t.url>> /\ t.notes = <<N_copied>>)
    /\ (t.pc = "done" /\ ~(t.ok /\ t.url \notin {None, ""}))
          => (t.writes = <<>> /\ t.notes[1] \in {N_nolink, N_failed(t.data)})

\* the upload answered 200 {"share_url": L} has ended: one write of L, then
\* the one success notification
C23_Witness ==
    /\ finished.pc = "done"
    /\ finished.net = HttpResponse(200, T_share)
    /\ finished.writes = <<"https://s.jesn.zip/s">>
    /\ finished.notes = <<N_copied>>
    /\ jobs = <<>>

-----------------------------------------------------------------------------
(* The sleep between two samples, under SpecKinds *)

\* C24: every iteration that samples the clipboard goes to a sleep, whatever
\* the value grabbed and also when it ends in a caught exception, and the
\* sleep is followed by one sample: no iteration samples again without
\* sleeping.
C24_SleepsAfterEverySample ==
    [][/\ (pc = "sample" /\ obs' # obs) => pc' = "sleep"
       /\ (pc = "sleep" /\ pc' # pc) => (pc' = "sample" /\ obs' = NoObs)]_vars

-----------------------------------------------------------------------------
(* Content copied while an upload completes *)

\* the image the user copied last since the latest sample
Pending == unsampled[Len(unsampled)]

\* C25: with auto-upload on, an image the user copied since the latest sample
\* and that is not the last dispatched identity is dispatched by the next tick
\* that runs without an I/O fault, whatever the upload threads did since the
\* copy.
C25_CopiedIsDispatched ==
    [][(/\ TickStep /\ settings.auto_upload
        /\ unsampled # <<>> /\ HashOf(Pending) # last_id
        /\ ~obs'.caught
        /\ ~(clipboard.kind = "image" /\ obs'.ident = None))
       => (Spawns /\ Spawned.ident = HashOf(Pending))]_vars

-----------------------------------------------------------------------------
(* The temp files of image dispatches *)

\* C26: once the upload thread of an image dispatch has completed, the temp
\* file that was created for it is no longer on disk.
C26_TempDeleted ==
    \A n \in TempNumbers :
        (finished.pc = "done" /\ finished.path = TempPath(n)) => n \notin temp_dir

====
